---- MODULE Spec2Model ----
(***************************************************************************)
(* Model of ralph.py: the outer loop (run_loop), batch selection           *)
(* (get_next_batch), the sequential path (_run_sequential_task) and the    *)
(* parallel batch orchestrator (run_parallel_batch) over a git trunk, a    *)
(* task ledger (TASKS.md), the progress log and the guardrail corpus.      *)
(***************************************************************************)
EXTENDS Integers, Sequences, FiniteSets, TLC

\* ---------------------------------------------------------------- bounds
MaxTasks  == 3      \* tasks in the ledger
MaxPar    == 2      \* largest --max-parallel explored
MaxBase   == 2      \* commits on trunk before the program starts
MaxCycles == 2      \* iterations of run_loop explored
MaxSteps  == 1      \* entries of VERIFY_STEPS explored
MaxVerify == 4      \* entries of VERIFY_STEPS explored for run_verify alone
MaxLog    == 2      \* entries of progress.md explored for the retry count alone
MaxWord   == 2      \* characters on each side of the hyphen of a task id

\* ------------------------------------------------------ program constants
MAX_RETRIES_PER_TASK == 3
MAX_ITERATIONS       == 200
MAX_PLANNING_ROUNDS  == 5

Epics == {"E1", "E2"}

\* ---------------------------------------------------------------- helpers
Range(s) == {s[i] : i \in DOMAIN s}

Min(a, b) == IF a <= b THEN a ELSE b

Max(a, b) == IF a >= b THEN a ELSE b

\* the list without the cap
SlicePrefix_uncapped(s, n) == s

\* Python's s[:n]
SlicePrefix(s, n) ==
    LET k == IF n >= 0 THEN Min(n, Len(s)) ELSE Max(Len(s) + n, 0)
    IN  SubSeq(s, 1, k)

NoId == [epic |-> "-", seq |-> 0]

\* a task identifier <epic>-<seq>, as matched by (\w+-\w+)
TaskIds == {[epic |-> e, seq |-> n] : e \in Epics, n \in 1..MaxTasks}

\* the ledgers explored: task i carries sequence number i, so identifiers
\* are unique; its epic prefix, the [parallel] flag of the heading it is
\* under and its checkbox are free
Ledgers ==
    {l \in [1..MaxTasks -> [id : TaskIds, done : BOOLEAN, epic_parallel : BOOLEAN]] :
        \A i \in 1..MaxTasks : l[i].id.seq = i}

\* the ledgers the program is started on: one epic prefix, every task pending
StartLedgers ==
    {l \in Ledgers : \A i \in DOMAIN l : l[i].id.epic = "E1" /\ ~l[i].done}

Ids(tasks) == [i \in DOMAIN tasks |-> tasks[i].id]

DoneSet(tasks) == {tasks[i].id : i \in {j \in DOMAIN tasks : tasks[j].done}}

\* ------------------------------------------------------------ task ledger
\* the batch collected without the epic-prefix test
get_next_batch_any_epic(tasks, max_par, no_par) ==
    LET pending == SelectSeq(tasks, LAMBDA t : ~t.done)
    IN  IF pending = <<>> THEN <<>>
        ELSE LET first == pending[1]
             IN  IF no_par \/ ~first.epic_parallel THEN <<first>>
                 ELSE SlicePrefix(
                        SelectSeq(pending, LAMBDA t : t.epic_parallel), max_par)

\* the batch collected without looking at --no-parallel
get_next_batch_always_parallel(tasks, max_par, no_par) ==
    LET pending == SelectSeq(tasks, LAMBDA t : ~t.done)
    IN  IF pending = <<>> THEN <<>>
        ELSE LET first == pending[1]
             IN  IF ~first.epic_parallel THEN <<first>>
                 ELSE SlicePrefix(
                        SelectSeq(pending,
                          LAMBDA t : t.epic_parallel /\ t.id.epic = first.id.epic),
                        max_par)

get_next_batch(tasks, max_par, no_par) ==
    LET pending == SelectSeq(tasks, LAMBDA t : ~t.done)
    IN  IF pending = <<>> THEN <<>>
        ELSE LET first == pending[1]
             IN  IF no_par \/ ~first.epic_parallel THEN <<first>>
                 ELSE SlicePrefix(
                        SelectSeq(pending,
                          LAMBDA t : t.epic_parallel /\ t.id.epic = first.id.epic),
                        max_par)

\* the flag flipped on every task of the same epic prefix
mark_task_done_epic(tasks, task_id) ==
    [i \in DOMAIN tasks |->
        IF tasks[i].id.epic = task_id.epic THEN [tasks[i] EXCEPT !.done = TRUE]
        ELSE tasks[i]]

mark_task_done(tasks, task_id) ==
    [i \in DOMAIN tasks |->
        IF tasks[i].id = task_id THEN [tasks[i] EXCEPT !.done = TRUE] ELSE tasks[i]]

\* ---------------------------------------------------------- progress log
\* an entry of progress.md, "<icon> [<ts>] **<task_id>**: <desc>": the icon
\* (passed), the task id, and the task id the description names in bold
\* (NoId when it names none)
log_progress(log, task_id, desc, passed) ==
    Append(log, [task |-> task_id, desc |-> desc, passed |-> passed])

\* the success icon looked for instead of the failure icon
count_retries_passed(log, task_id) ==
    Cardinality({i \in DOMAIN log : log[i].passed /\ log[i].task = task_id})

\* the lines of progress.md matching  ✗.*\*\*<task_id>\*\*
count_retries_for_task(log, task_id) ==
    Cardinality({i \in DOMAIN log :
        ~log[i].passed /\ (log[i].task = task_id \/ log[i].desc = task_id)})

\* progress.md as earlier runs of the program left it: up to the ceiling of
\* failure entries for the first task of the ledger
StartLogs(tasks) ==
    {[i \in 1..k |-> [task |-> tasks[1].id, desc |-> NoId, passed |-> FALSE]] :
        k \in 0..MAX_RETRIES_PER_TASK}

\* nothing written to guardrails.md
add_guardrail_skipped(g, task_id) == g

add_guardrail(g, task_id) == Append(g, task_id)

\* ----------------------------------------------------------- verification
\* steps: the exit status (TRUE = zero) of each configured step, in order
run_verify(steps) == \A i \in DOMAIN steps : steps[i]

\* run_verify step by step: codes[i] is the returncode of step i; ran lists
\* the steps subprocess.run was called for
RECURSIVE run_steps(_, _, _)
run_steps(codes, i, ran) ==
    IF i > Len(codes) THEN [passed |-> TRUE, ran |-> ran]
    ELSE IF codes[i] # 0 THEN [passed |-> FALSE, ran |-> Append(ran, i)]
    ELSE run_steps(codes, i + 1, Append(ran, i))

\* every step run, the result taken at the end
run_verify_all(codes) ==
    [passed |-> \A i \in DOMAIN codes : codes[i] = 0,
     ran |-> [i \in DOMAIN codes |-> i]]

run_verify_steps(codes) ==
    IF codes = <<>> THEN [passed |-> TRUE, ran |-> <<>>]
    ELSE run_steps(codes, 1, <<>>)

\* -------------------------------------------------------------------- git
\* trunk is the first-parent chain of HEAD; a commit records what made it
\* and the completion flags TASKS.md has in that commit
Commit(kind, task_id, ledger) == [kind |-> kind, task |-> task_id, ledger |-> ledger]

\* working-tree TASKS.md as checked out from a commit
Checkout(tasks, commit) ==
    [i \in DOMAIN tasks |-> [tasks[i] EXCEPT !.done = (tasks[i].id \in commit.ledger)]]

\* git merge --no-ff <branch>: a branch without new commits is "Already up
\* to date" (exit 0, no commit); otherwise a merge commit, or a conflict
MergeResults(has_commits) ==
    IF has_commits THEN {"merged", "conflict"} ELSE {"up_to_date"}

\* a conflicting merge left on trunk instead of aborted
git_merge_no_abort(tr, task_id, result) ==
    IF result \in {"merged", "conflict"}
    THEN Append(tr, Commit("merge", task_id, tr[Len(tr)].ledger))
    ELSE tr

git_merge(tr, task_id, result) ==
    IF result = "merged"
    THEN Append(tr, Commit("merge", task_id, tr[Len(tr)].ledger))
    ELSE tr

\* git reset --hard HEAD~n: fails (and changes nothing) when HEAD~n does
\* not exist
git_reset_ok(tr, n) == Len(tr) - n >= 1

git_reset_trunk(tr, n) == IF git_reset_ok(tr, n) THEN SubSeq(tr, 1, Len(tr) - n) ELSE tr

git_reset_tree(tr, n, tasks) ==
    IF git_reset_ok(tr, n) THEN Checkout(tasks, tr[Len(tr) - n]) ELSE tasks

\* ------------------------------------------------------------------ state
VARIABLES
    entry,          \* "run_loop" or "run_parallel_batch": the function called
    pc,             \* position of the orchestrator thread
    max_parallel,   \* --max-parallel
    no_parallel,    \* --no-parallel
    iteration,      \* run_loop's loop variable
    tasksFile,      \* TASKS.md in the working tree of ROOT
    trunk,          \* commits on the first-parent chain of HEAD
    progress,       \* .ralph/progress.md
    guardrails,     \* .ralph/guardrails.md
    onDisk,         \* task ids with a worktree and branch on disk
    requeued,       \* ids announced as re-queued for sequential execution
    state_lock,     \* _STATE_LOCK: the thread holding it, or NoThread
    writer,         \* per thread: its next append and how far it got
    files,          \* activity.log, progress.md, guardrails.md as written chunks
    vsteps,         \* exit status of each entry of VERIFY_STEPS, in order
    vout,           \* what a run_verify call returned and which steps it ran
    dry_run,        \* --dry-run
    enable_planning,\* not --no-plan
    planning_rounds,\* run_loop's planning_rounds
    planned,        \* run_claude calls made by run_planning_mode
    wids,           \* task ids as written in TASKS.md, in batch order
    repo,           \* worktree directories and branches, by path and name
    setups,         \* per setup_worktree call: what it found and returned
    batch,          \* the batch of this cycle (task records)
    setupIdx,       \* Phase 1 loop index
    worktrees,      \* worktrees dict: ids in insertion order
    max_workers,    \* size of the ThreadPoolExecutor
    wstate,         \* per submitted task: queued/running/finished
    outcome,        \* per finished worker: what the invocation produced
    results,        \* results dict: <<id, ok>> in insertion order
    succeeded,      \* list of ids
    failed,         \* list of ids
    mergeIdx,       \* Phase 3 loop index
    merged,         \* list of ids
    verify_ok,      \* result of run_verify
    verified,       \* number of run_verify calls in this cycle
    done_ids,       \* list of ids marked done in this cycle
    current,        \* task of the sequential path
    pre,            \* trunk, ledger and log at the start of the cycle
    attempts,       \* ids whose merge was attempted, in order
    invoked,        \* per task: agent invocations in this cycle
    released,       \* per worktree id: teardown_worktree calls in this cycle
    added           \* commits this cycle's merges appended to trunk

persistent == <<max_parallel, no_parallel, tasksFile, trunk, progress, guardrails, onDisk>>

cycle == <<batch, setupIdx, worktrees, max_workers, wstate, outcome, results,
           succeeded, failed, mergeIdx, merged, verify_ok, verified, done_ids,
           current, pre, attempts, invoked, released, added>>

\* the state files as the threads write them
plan == <<dry_run, enable_planning, planning_rounds, planned>>

wtv == <<wids, repo, setups>>

side == <<state_lock, writer, files, vsteps, vout, plan, wtv>>

\* everything but the state files and the verification steps
main == <<entry, pc, iteration, persistent, requeued, cycle>>

vars == <<entry, pc, iteration, persistent, requeued, cycle, side>>

\* what one run_claude call can do: the agent exits 0 (having committed or
\* not), exits non-zero, is killed at the 600 s timeout (returncode -9), or
\* the call raises
Outcomes == {"ok_commit", "ok_empty", "fail", "timeout", "raise"}

\* a killed agent reported as a success
Ok_timeout_passes(o) == o \in {"ok_commit", "ok_empty", "timeout"}

\* proc.returncode == 0
Ok(o) == o \in {"ok_commit", "ok_empty"}

Snapshot == [trunk |-> trunk, tasks |-> tasksFile, progress |-> progress]

\* no task announced as re-queued: neither by a revert ("Re-queuing batch
\* for sequential execution") nor by a conflict ("re-queued as sequential")
NoneRequeued == [reverted |-> {}, conflicted |-> {}]

\* threads that append to the state files: 0 is the orchestrator thread,
\* 1..MaxPar are the threads of the pool
Threads == 0..MaxPar

NoThread == -1

StateFiles == {"activity", "progress", "guardrails"}

\* with PROMPT_FILE (.ralph/current_prompt.md)
SharedFiles == StateFiles \cup {"prompt"}

\* run_verify not called
NoRun == [passed |-> FALSE, ran |-> <<0>>]

\* a run without --dry-run whose empty batch ends the loop
InitPlan ==
    /\ dry_run = FALSE
    /\ enable_planning = FALSE
    /\ planning_rounds = 0
    /\ planned = 0

\* no task id spelled out, no setup_worktree call followed
InitWt ==
    /\ wids = <<>>
    /\ repo = [dirs |-> <<>>, branches |-> <<>>]
    /\ setups = <<>>

\* no append under way, the files as init_state_dir leaves them
InitSide ==
    /\ InitPlan
    /\ InitWt
    /\ state_lock = NoThread
    /\ writer = [th \in Threads |-> [n |-> 1, at |-> "idle"]]
    /\ files = [f \in SharedFiles |-> <<>>]
    /\ vsteps = <<>>
    /\ vout = NoRun

NoSnapshot == [trunk |-> <<>>, tasks |-> <<>>, progress |-> <<>>]

\* the locals of a cycle before it starts
CycleReset ==
    /\ batch' = <<>>
    /\ setupIdx' = 1
    /\ worktrees' = <<>>
    /\ max_workers' = 0
    /\ wstate' = [t \in TaskIds |-> "none"]
    /\ outcome' = [t \in TaskIds |-> "none"]
    /\ results' = <<>>
    /\ succeeded' = <<>>
    /\ failed' = <<>>
    /\ mergeIdx' = 1
    /\ merged' = <<>>
    /\ verify_ok' = FALSE
    /\ verified' = 0
    /\ done_ids' = <<>>
    /\ current' = NoId
    /\ pre' = NoSnapshot
    /\ attempts' = <<>>
    /\ invoked' = [t \in TaskIds |-> 0]
    /\ released' = [t \in TaskIds |-> 0]
    /\ added' = 0

InitCycle ==
    /\ batch = <<>>
    /\ setupIdx = 1
    /\ worktrees = <<>>
    /\ max_workers = 0
    /\ wstate = [t \in TaskIds |-> "none"]
    /\ outcome = [t \in TaskIds |-> "none"]
    /\ results = <<>>
    /\ succeeded = <<>>
    /\ failed = <<>>
    /\ mergeIdx = 1
    /\ merged = <<>>
    /\ verify_ok = FALSE
    /\ verified = 0
    /\ done_ids = <<>>
    /\ current = NoId
    /\ pre = NoSnapshot
    /\ attempts = <<>>
    /\ invoked = [t \in TaskIds |-> 0]
    /\ released = [t \in TaskIds |-> 0]
    /\ added = 0

InitPersistent ==
    /\ max_parallel \in 0..MaxPar
    /\ no_parallel \in BOOLEAN
    /\ tasksFile \in StartLedgers
    /\ \E n \in 1..MaxBase :
          trunk = [i \in 1..n |-> Commit("base", NoId, DoneSet(tasksFile))]
    /\ progress \in StartLogs(tasksFile)
    /\ guardrails = <<>>
    /\ onDisk = {}
    /\ requeued = NoneRequeued
    /\ InitSide

\* the program started through main(): run_loop
Init ==
    /\ entry = "run_loop"
    /\ pc = "loop"
    /\ iteration = 0
    /\ InitPersistent
    /\ InitCycle

\* the exit statuses one run of the configured VERIFY_STEPS can produce
VerifyRuns == UNION {[1..n -> BOOLEAN] : n \in 0..MaxSteps}

\* ------------------------------------------------------------- worktrees
\* setup_worktree: stale worktree and branch removed, then `git worktree
\* add`; created = FALSE is the RuntimeError
setup_worktree(disk, task_id, created) ==
    IF created THEN disk \cup {task_id} ELSE disk \ {task_id}

teardown_worktree(disk, task_id) == disk \ {task_id}

RECURSIVE teardown_all(_, _)
teardown_all(disk, ids) ==
    IF ids = <<>> THEN disk
    ELSE teardown_all(teardown_worktree(disk, Head(ids)), Tail(ids))

Bump(count, ids) == [t \in DOMAIN count |-> IF t \in Range(ids) THEN count[t] + 1 ELSE count[t]]

\* ------------------------------------------------------------- run_loop
LoopGuard ==
    /\ entry = "run_loop"
    /\ pc = "loop"
    /\ iteration < MAX_ITERATIONS
    /\ iteration < MaxCycles

SelectedBatch == get_next_batch(tasksFile, max_parallel, no_parallel)

\* no pending task: the loop ends ("All tasks complete" with --no-plan, or
\* a planning round that adds no task)
LoopComplete ==
    /\ LoopGuard
    /\ SelectedBatch = <<>>
    /\ iteration' = iteration + 1
    /\ pc' = "done"
    /\ UNCHANGED <<side, requeued, entry, persistent, cycle>>

\* len(batch) > 1: run_parallel_batch(batch, ...)
LoopParallel ==
    /\ LoopGuard
    /\ Len(SelectedBatch) > 1
    /\ iteration' = iteration + 1
    /\ batch' = SelectedBatch
    /\ pre' = Snapshot
    /\ pc' = "setup"
    /\ UNCHANGED <<side, requeued, entry, persistent, setupIdx, worktrees, max_workers, wstate,
                   outcome, results, succeeded, failed, mergeIdx, merged,
                   verify_ok, verified, done_ids, current, attempts, invoked,
                   released, added>>

\* single task at the retry ceiling: sys.exit(1)
LoopRetryStop ==
    /\ LoopGuard
    /\ Len(SelectedBatch) = 1
    /\ count_retries_for_task(progress, SelectedBatch[1].id) >= MAX_RETRIES_PER_TASK
    /\ iteration' = iteration + 1
    /\ pc' = "exit1"
    /\ UNCHANGED <<side, requeued, entry, persistent, cycle>>

\* single task below the ceiling: _run_sequential_task
LoopSequential ==
    /\ LoopGuard
    /\ Len(SelectedBatch) = 1
    /\ count_retries_for_task(progress, SelectedBatch[1].id) < MAX_RETRIES_PER_TASK
    /\ iteration' = iteration + 1
    /\ batch' = SelectedBatch
    /\ current' = SelectedBatch[1].id
    /\ pre' = Snapshot
    /\ requeued' = [reverted |-> requeued.reverted \ {SelectedBatch[1].id},
                    conflicted |-> requeued.conflicted \ {SelectedBatch[1].id}]
    /\ pc' = "seq_claude"
    /\ UNCHANGED <<side, entry, persistent, setupIdx, worktrees, max_workers, wstate,
                   outcome, results, succeeded, failed, mergeIdx, merged,
                   verify_ok, verified, done_ids, attempts, invoked, released,
                   added>>

\* the cycle's call returned: next iteration of the for loop
LoopContinue ==
    /\ entry = "run_loop"
    /\ pc \in {"returned", "seq_done"}
    /\ pc' = "loop"
    /\ CycleReset
    /\ UNCHANGED <<side, requeued, entry, iteration, persistent>>

\* -------------------------------------------------- _run_sequential_task
\* run_claude in ROOT: the agent may commit (git add -A takes the ledger's
\* working-tree state with it), exit non-zero or time out, or the call raises
SeqClaude ==
    /\ pc = "seq_claude"
    /\ \E o \in Outcomes :
        /\ outcome' = [outcome EXCEPT ![current] = o]
        /\ invoked' = [invoked EXCEPT ![current] = @ + 1]
        /\ trunk' = IF o = "ok_commit"
                    THEN Append(trunk, Commit("agent", current, DoneSet(tasksFile)))
                    ELSE trunk
        /\ guardrails' = IF o # "raise" /\ ~Ok(o)
                         THEN add_guardrail(guardrails, current) ELSE guardrails
        /\ progress' = IF o # "raise" /\ ~Ok(o)
                       THEN log_progress(progress, current, NoId, FALSE) ELSE progress
        /\ pc' = CASE o = "raise" -> "crashed"
                   [] ~Ok(o)      -> "exit1"
                   [] OTHER       -> "seq_verify"
    /\ UNCHANGED <<side, requeued, entry, iteration, max_parallel, no_parallel, tasksFile, onDisk,
                   batch, setupIdx, worktrees, max_workers, wstate, results,
                   succeeded, failed, mergeIdx, merged, verify_ok, verified,
                   done_ids, current, pre, attempts, released, added>>

\* the ledger written whatever run_verify returned
ledger_unverified(tasks, task_id, passed) == mark_task_done(tasks, task_id)

\* if passed: mark_task_done(task["id"])
ledger_after_verify(tasks, task_id, passed) ==
    IF passed THEN mark_task_done(tasks, task_id) ELSE tasks

SeqVerify ==
    /\ pc = "seq_verify"
    /\ \E steps \in VerifyRuns :
        LET passed == run_verify(steps) IN
        /\ verify_ok' = passed
        /\ verified' = verified + 1
        /\ progress' = log_progress(progress, current, NoId, passed)
        /\ tasksFile' = ledger_after_verify(tasksFile, current, passed)
        /\ guardrails' = IF passed THEN guardrails ELSE add_guardrail(guardrails, current)
        /\ pc' = IF passed THEN "seq_done" ELSE "exit1"
    /\ UNCHANGED <<side, requeued, entry, iteration, max_parallel, no_parallel, trunk, onDisk,
                   batch, setupIdx, worktrees, max_workers, wstate, outcome,
                   results, succeeded, failed, mergeIdx, merged, done_ids,
                   current, pre, attempts, invoked, released, added>>

\* ---------------------------------------------------- run_parallel_batch
\* the worktrees dict filled whether or not setup_worktree raised
worktrees_add_always(wt, task_id, created) == Append(wt, task_id)

\* worktrees[task["id"]] = wt inside the try: skipped on RuntimeError
worktrees_add(wt, task_id, created) ==
    IF created THEN Append(wt, task_id) ELSE wt

\* Phase 1, one pass of the loop over tasks
Phase1Setup ==
    /\ pc = "setup"
    /\ setupIdx <= Len(batch)
    /\ \E created \in BOOLEAN :
        LET tid == batch[setupIdx].id IN
        /\ onDisk' = setup_worktree(onDisk, tid, created)
        /\ worktrees' = worktrees_add(worktrees, tid, created)
    /\ setupIdx' = setupIdx + 1
    /\ UNCHANGED <<side, requeued, entry, pc, iteration, max_parallel, no_parallel, tasksFile,
                   trunk, progress, guardrails, batch, max_workers, wstate,
                   outcome, results, succeeded, failed, mergeIdx, merged,
                   verify_ok, verified, done_ids, current, pre, attempts,
                   invoked, released, added>>

\* tasks_to_run is empty: return []
Phase1Abort ==
    /\ pc = "setup"
    /\ setupIdx > Len(batch)
    /\ worktrees = <<>>
    /\ pc' = "returned"
    /\ UNCHANGED <<side, requeued, entry, iteration, persistent, cycle>>

\* a pool as large as the batch
pool_size_uncapped(n, max_par) == n

\* max_workers of the ThreadPoolExecutor
pool_size(n, max_par) == Min(n, max_par)

\* Phase 2: the pool is created (ValueError when max_workers <= 0) and one
\* future per task of tasks_to_run is submitted, in order
Phase2Spawn ==
    /\ pc = "setup"
    /\ setupIdx > Len(batch)
    /\ worktrees # <<>>
    /\ LET n == pool_size(Len(worktrees), max_parallel) IN
        IF n <= 0
        THEN /\ pc' = "crashed"
             /\ UNCHANGED <<max_workers, wstate>>
        ELSE /\ pc' = "workers"
             /\ max_workers' = n
             /\ wstate' = [t \in TaskIds |->
                             IF t \in Range(worktrees) THEN "queued" ELSE "none"]
    /\ UNCHANGED <<side, requeued, entry, iteration, persistent, batch, setupIdx, worktrees,
                   outcome, results, succeeded, failed, mergeIdx, merged,
                   verify_ok, verified, done_ids, current, pre, attempts,
                   invoked, released, added>>

Running == {t \in TaskIds : wstate[t] = "running"}

\* index in submission order of the first future still in the work queue
FirstQueued ==
    CHOOSE i \in DOMAIN worktrees :
        /\ wstate[worktrees[i]] = "queued"
        /\ \A j \in 1..(i - 1) : wstate[worktrees[j]] # "queued"

\* a pool thread takes the next work item: run_worker(task) starts
WorkerStart ==
    /\ pc \in {"workers", "unwinding"}
    /\ \E t \in Range(worktrees) : wstate[t] = "queued"
    /\ Cardinality(Running) < max_workers
    /\ LET t == worktrees[FirstQueued] IN
        /\ wstate' = [wstate EXCEPT ![t] = "running"]
        /\ invoked' = [invoked EXCEPT ![t] = @ + 1]
    /\ UNCHANGED <<side, requeued, entry, pc, iteration, persistent, batch, setupIdx, worktrees,
                   max_workers, outcome, results, succeeded, failed, mergeIdx,
                   merged, verify_ok, verified, done_ids, current, pre,
                   attempts, released, added>>

\* run_worker(task) ends: the agent exited zero (with or without a commit on
\* its branch), exited non-zero or timed out, or the call raised.  The main
\* thread, blocked in as_completed, takes the future: future.result()
\* returns the worker's tuple, which goes into results, or re-raises
WorkerFinish(t) ==
    /\ pc \in {"workers", "unwinding"}
    /\ wstate[t] = "running"
    /\ wstate' = [wstate EXCEPT ![t] = "finished"]
    /\ \E o \in Outcomes :
        /\ outcome' = [outcome EXCEPT ![t] = o]
        /\ IF pc = "workers" /\ o # "raise"
           THEN results' = Append(results, [id |-> t, ok |-> Ok(o)])
           ELSE results' = results
        /\ pc' = IF o = "raise" THEN "unwinding" ELSE pc
    /\ UNCHANGED <<side, requeued, entry, iteration, persistent, batch, setupIdx, worktrees,
                   max_workers, succeeded, failed, mergeIdx, merged,
                   verify_ok, verified, done_ids, current, pre, attempts,
                   invoked, released, added>>

\* the exception leaves the with block: shutdown(wait=True) lets every
\* submitted future run to its end, then the exception leaves
\* run_parallel_batch and run_loop
PoolUnwind ==
    /\ pc = "unwinding"
    /\ \A t \in Range(worktrees) : wstate[t] = "finished"
    /\ pc' = "crashed"
    /\ UNCHANGED <<side, requeued, entry, iteration, persistent, cycle>>

\* leaving the loop over the futures at the first one
as_completed_first == \E t \in Range(worktrees) : wstate[t] = "finished"

\* the for loop over as_completed(futures) has yielded every future
as_completed_exhausted == \A t \in Range(worktrees) : wstate[t] = "finished"

\* every result taken as a success
succeeded_unfiltered(res) == Ids(res)

\* succeeded / failed as read off the results dict
succeeded_of(res) == Ids(SelectSeq(res, LAMBDA r : r.ok))

failed_of(res) == Ids(SelectSeq(res, LAMBDA r : ~r.ok))

RECURSIVE log_failures(_, _)
log_failures(log, ids) ==
    IF ids = <<>> THEN log
    ELSE log_failures(log_progress(log, Head(ids), NoId, FALSE), Tail(ids))

RECURSIVE guard_failures(_, _)
guard_failures(g, ids) ==
    IF ids = <<>> THEN g
    ELSE guard_failures(add_guardrail(g, Head(ids)), Tail(ids))

\* after the pool: failures are recorded; with no success the worktrees are
\* torn down and the batch returns []
AfterWorkers ==
    /\ pc = "workers"
    /\ as_completed_exhausted
    /\ succeeded' = succeeded_of(results)
    /\ failed' = failed_of(results)
    /\ guardrails' = guard_failures(guardrails, failed_of(results))
    /\ progress' = log_failures(progress, failed_of(results))
    /\ IF succeeded_of(results) = <<>>
       THEN /\ onDisk' = teardown_all(onDisk, worktrees)
            /\ released' = Bump(released, worktrees)
            /\ pc' = "returned"
       ELSE /\ pc' = "merge"
            /\ UNCHANGED <<onDisk, released>>
    /\ UNCHANGED <<side, requeued, entry, iteration, max_parallel, no_parallel, tasksFile, trunk,
                   batch, setupIdx, worktrees, max_workers, wstate, outcome,
                   results, mergeIdx, merged, verify_ok, verified, done_ids,
                   current, pre, attempts, invoked, added>>

\* Phase 3, one pass of the loop over succeeded
Phase3Merge ==
    /\ pc = "merge"
    /\ mergeIdx <= Len(succeeded)
    /\ LET tid == succeeded[mergeIdx] IN
       \E r \in MergeResults(outcome[tid] = "ok_commit") :
        /\ trunk' = git_merge(trunk, tid, r)
        /\ merged' = IF r = "conflict" THEN merged ELSE Append(merged, tid)
        /\ added' = IF r = "merged" THEN added + 1 ELSE added
        /\ attempts' = Append(attempts, tid)
        /\ requeued' = IF r = "conflict"
                       THEN [requeued EXCEPT !.conflicted = @ \cup {tid}]
                       ELSE requeued
    /\ mergeIdx' = mergeIdx + 1
    /\ UNCHANGED <<side, entry, pc, iteration, max_parallel, no_parallel, tasksFile,
                   progress, guardrails, onDisk, batch, setupIdx, worktrees,
                   max_workers, wstate, outcome, results, succeeded, failed,
                   verify_ok, verified, done_ids, current, pre, invoked,
                   released>>

\* leaving the loop over succeeded after its first pass
merge_loop_done_early(idx, succ) == idx > 1

\* the for loop over succeeded has made its last pass
merge_loop_done(idx, succ) == idx > Len(succ)

\* a batch that is never taken as having merged nothing
nothing_merged_never(m) == FALSE

\* `if not merged`
nothing_merged(m) == m = <<>>

\* nothing merged: teardown and return []
Phase3Abort ==
    /\ pc = "merge"
    /\ merge_loop_done(mergeIdx, succeeded)
    /\ nothing_merged(merged)
    /\ onDisk' = teardown_all(onDisk, worktrees)
    /\ released' = Bump(released, worktrees)
    /\ pc' = "returned"
    /\ UNCHANGED <<side, requeued, entry, iteration, max_parallel, no_parallel, tasksFile, trunk,
                   progress, guardrails, batch, setupIdx, worktrees, max_workers,
                   wstate, outcome, results, succeeded, failed, mergeIdx, merged,
                   verify_ok, verified, done_ids, current, pre, attempts,
                   invoked, added>>

\* Phase 4: run_verify(cwd=ROOT)
Phase4Verify ==
    /\ pc = "merge"
    /\ merge_loop_done(mergeIdx, succeeded)
    /\ ~nothing_merged(merged)
    /\ \E steps \in VerifyRuns : verify_ok' = run_verify(steps)
    /\ verified' = verified + 1
    /\ pc' = "phase5"
    /\ UNCHANGED <<side, requeued, entry, iteration, persistent, batch, setupIdx, worktrees,
                   max_workers, wstate, outcome, results, succeeded, failed,
                   mergeIdx, merged, done_ids, current, pre, attempts, invoked,
                   released, added>>

RECURSIVE mark_all_done(_, _)
mark_all_done(tasks, ids) ==
    IF ids = <<>> THEN tasks
    ELSE mark_all_done(mark_task_done(tasks, Head(ids)), Tail(ids))

RECURSIVE log_successes(_, _)
log_successes(log, ids) ==
    IF ids = <<>> THEN log
    ELSE log_successes(log_progress(log, Head(ids), NoId, TRUE), Tail(ids))

\* every merged task reported as done whatever run_verify returned
done_ids_unverified(m, ok) == m

\* done_ids = [], filled from merged under `if verify_ok`
done_ids_after(m, ok) == IF ok THEN m ELSE <<>>

\* Phase 5, verify_ok: every merged task is marked done and logged
Phase5Commit ==
    /\ pc = "phase5"
    /\ verify_ok
    /\ tasksFile' = mark_all_done(tasksFile, merged)
    /\ progress' = log_successes(progress, merged)
    /\ done_ids' = done_ids_after(merged, verify_ok)
    /\ pc' = "cleanup"
    /\ UNCHANGED <<side, requeued, entry, iteration, max_parallel, no_parallel, trunk, guardrails,
                   onDisk, batch, setupIdx, worktrees, max_workers, wstate,
                   outcome, results, succeeded, failed, mergeIdx, merged,
                   verify_ok, verified, current, pre, attempts, invoked,
                   released, added>>

\* revert_count = len(merged)
revert_count(m) == Len(m)

\* Phase 5, not verify_ok: git reset --hard HEAD~revert_count
Phase5Revert ==
    /\ pc = "phase5"
    /\ ~verify_ok
    /\ trunk' = git_reset_trunk(trunk, revert_count(merged))
    /\ tasksFile' = git_reset_tree(trunk, revert_count(merged), tasksFile)
    /\ requeued' = [requeued EXCEPT !.reverted = @ \cup Range(merged)]
    /\ done_ids' = done_ids_after(merged, verify_ok)
    /\ pc' = "cleanup"
    /\ UNCHANGED <<side, entry, iteration, max_parallel, no_parallel, progress,
                   guardrails, onDisk, batch, setupIdx, worktrees, max_workers,
                   wstate, outcome, results, succeeded, failed, mergeIdx, merged,
                   verify_ok, verified, current, pre, attempts,
                   invoked, released, added>>

\* cleanup of every worktree, then return done_ids
Cleanup ==
    /\ pc = "cleanup"
    /\ onDisk' = teardown_all(onDisk, worktrees)
    /\ released' = Bump(released, worktrees)
    /\ pc' = "returned"
    /\ UNCHANGED <<side, requeued, entry, iteration, max_parallel, no_parallel, tasksFile, trunk,
                   progress, guardrails, batch, setupIdx, worktrees, max_workers,
                   wstate, outcome, results, succeeded, failed, mergeIdx, merged,
                   verify_ok, verified, done_ids, current, pre, attempts,
                   invoked, added>>

\* --------------------------------------------------------- specifications
ParallelBatch ==
    \/ Phase1Setup
    \/ Phase1Abort
    \/ Phase2Spawn
    \/ WorkerStart
    \/ \E t \in TaskIds : WorkerFinish(t)
    \/ PoolUnwind
    \/ AfterWorkers
    \/ Phase3Merge
    \/ Phase3Abort
    \/ Phase4Verify
    \/ Phase5Commit
    \/ Phase5Revert
    \/ Cleanup

Next ==
    \/ LoopComplete
    \/ LoopParallel
    \/ LoopRetryStop
    \/ LoopSequential
    \/ LoopContinue
    \/ SeqClaude
    \/ SeqVerify
    \/ ParallelBatch

Spec == Init /\ [][Next]_vars

\* one call of run_parallel_batch(tasks, routing, False, max_parallel) on a
\* batch of 1..MaxTasks pending tasks, for every max_parallel
InitBatch ==
    /\ entry = "run_parallel_batch"
    /\ pc = "setup"
    /\ iteration = 0
    /\ max_parallel \in 0..MaxPar
    /\ no_parallel = FALSE
    /\ tasksFile \in {l \in StartLedgers : \A i \in DOMAIN l : l[i].epic_parallel}
    /\ \E n \in 1..MaxBase :
          trunk = [i \in 1..n |-> Commit("base", NoId, DoneSet(tasksFile))]
    /\ progress = <<>>
    /\ guardrails = <<>>
    /\ onDisk = {}
    /\ requeued = NoneRequeued
    /\ InitSide
    /\ setupIdx = 1
    /\ worktrees = <<>>
    /\ max_workers = 0
    /\ wstate = [t \in TaskIds |-> "none"]
    /\ outcome = [t \in TaskIds |-> "none"]
    /\ results = <<>>
    /\ succeeded = <<>>
    /\ failed = <<>>
    /\ mergeIdx = 1
    /\ merged = <<>>
    /\ verify_ok = FALSE
    /\ verified = 0
    /\ done_ids = <<>>
    /\ current = NoId
    /\ attempts = <<>>
    /\ invoked = [t \in TaskIds |-> 0]
    /\ released = [t \in TaskIds |-> 0]
    /\ added = 0
    /\ \E k \in 1..Len(tasksFile) : batch = SubSeq(tasksFile, 1, k)
    /\ pre = Snapshot

SpecBatch == InitBatch /\ [][ParallelBatch]_vars

\* one iteration of run_loop up to its dispatch, on every ledger parse_tasks
\* can return, for every --max-parallel and --no-parallel
InitSelect ==
    /\ entry = "run_loop"
    /\ pc = "loop"
    /\ iteration = 0
    /\ max_parallel \in 0..MaxPar
    /\ no_parallel \in BOOLEAN
    /\ tasksFile \in Ledgers
    /\ trunk = <<Commit("base", NoId, DoneSet(tasksFile))>>
    /\ progress \in StartLogs(tasksFile)
    /\ guardrails = <<>>
    /\ onDisk = {}
    /\ requeued = NoneRequeued
    /\ InitSide
    /\ InitCycle

Dispatch ==
    \/ LoopComplete
    \/ LoopParallel
    \/ LoopRetryStop
    \/ LoopSequential

SpecSelect == InitSelect /\ [][Dispatch]_vars

\* ----------------------------------------------------------- run_verify
ExitCodes == {0, 1, 2}

\* one call of run_verify() on every VERIFY_STEPS of up to MaxVerify
\* entries and every exit status of each
InitVerify ==
    /\ entry = "run_verify"
    /\ pc = "seq_verify"
    /\ iteration = 0
    /\ max_parallel = MaxPar
    /\ no_parallel = FALSE
    /\ tasksFile \in {l \in StartLedgers : \A i \in DOMAIN l : l[i].epic_parallel}
    /\ trunk = <<Commit("base", NoId, DoneSet(tasksFile))>>
    /\ progress = <<>>
    /\ guardrails = <<>>
    /\ onDisk = {}
    /\ requeued = NoneRequeued
    /\ state_lock = NoThread
    /\ writer = [th \in Threads |-> [n |-> 1, at |-> "idle"]]
    /\ files = [f \in SharedFiles |-> <<>>]
    /\ InitPlan
    /\ InitWt
    /\ vsteps \in UNION {[1..n -> ExitCodes] : n \in 0..MaxVerify}
    /\ vout = NoRun
    /\ InitCycle

RunVerify ==
    /\ entry = "run_verify"
    /\ vout = NoRun
    /\ vout' = run_verify_steps(vsteps)
    /\ UNCHANGED <<vsteps, state_lock, writer, files, plan, wtv, main>>

SpecVerify == InitVerify /\ [][RunVerify]_vars

\* ------------------------------------------------------------ --dry-run
\* TASKS.md with up to MaxTasks tasks, any of them done
DryLedgers ==
    UNION {{l \in [1..n -> [id : TaskIds, done : BOOLEAN, epic_parallel : BOOLEAN]] :
              \A i \in 1..n : l[i].id.seq = i} : n \in 0..MaxTasks}

\* run_loop(dry_run=True) under every --no-plan, --no-parallel and
\* --max-parallel, on every ledger
InitDry ==
    /\ entry = "run_loop"
    /\ pc = "loop"
    /\ iteration = 0
    /\ max_parallel \in 0..MaxPar
    /\ no_parallel \in BOOLEAN
    /\ tasksFile \in DryLedgers
    /\ trunk = <<Commit("base", NoId, DoneSet(tasksFile))>>
    /\ progress \in IF tasksFile = <<>> THEN {<<>>} ELSE StartLogs(tasksFile)
    /\ guardrails = <<>>
    /\ onDisk = {}
    /\ requeued = NoneRequeued
    /\ state_lock = NoThread
    /\ writer = [th \in Threads |-> [n |-> 1, at |-> "idle"]]
    /\ files = [f \in SharedFiles |-> <<>>]
    /\ vsteps = <<>>
    /\ vout = NoRun
    /\ InitWt
    /\ dry_run = TRUE
    /\ enable_planning \in BOOLEAN
    /\ planning_rounds = 0
    /\ planned = 0
    /\ InitCycle

DryGuard ==
    /\ entry = "run_loop"
    /\ dry_run
    /\ pc = "loop"
    /\ iteration < MAX_ITERATIONS

\* what the planning agent leaves behind: a non-zero exit, no new task, or a
\* new pending task appended to TASKS.md
PlanOutcomes == {"fail", "none", "added"}

\* the ledger after a planning round that added one pending task
plan_added(tasks, epic, par) ==
    Append(tasks, [id |-> [epic |-> epic, seq |-> Len(tasks) + 1],
                   done |-> FALSE, epic_parallel |-> par])

\* not batch, not enable_planning: "All tasks complete"
DryComplete ==
    /\ DryGuard
    /\ SelectedBatch = <<>>
    /\ ~enable_planning
    /\ iteration' = iteration + 1
    /\ pc' = "done"
    /\ UNCHANGED <<state_lock, writer, files, vsteps, vout, plan, wtv,
                   requeued, entry, persistent, cycle>>

\* not batch, enable_planning: past MAX_PLANNING_ROUNDS the loop ends;
\* otherwise run_planning_mode(planning_rounds), which calls run_claude
\* whatever dry_run is, and the loop goes on when it added a task
DryPlanning ==
    /\ DryGuard
    /\ SelectedBatch = <<>>
    /\ enable_planning
    /\ iteration' = iteration + 1
    /\ planning_rounds' = planning_rounds + 1
    /\ IF planning_rounds + 1 > MAX_PLANNING_ROUNDS
       THEN /\ pc' = "done"
            /\ UNCHANGED <<planned, tasksFile>>
       ELSE /\ planned' = planned + 1
            /\ \E o \in PlanOutcomes :
                 \/ /\ o = "added"
                    /\ Len(tasksFile) < MaxTasks
                    /\ \E e \in Epics, par \in BOOLEAN :
                          tasksFile' = plan_added(tasksFile, e, par)
                    /\ pc' = "loop"
                 \/ /\ o # "added"
                    /\ tasksFile' = tasksFile
                    /\ pc' = "done"
    /\ UNCHANGED <<state_lock, writer, files, vsteps, vout, wtv, dry_run, enable_planning,
                   requeued, entry, max_parallel, no_parallel, trunk, progress,
                   guardrails, onDisk, cycle>>

\* len(batch) > 1: run_parallel_batch prints the prompts and returns [],
\* then break
DryParallel ==
    /\ DryGuard
    /\ Len(SelectedBatch) > 1
    /\ iteration' = iteration + 1
    /\ batch' = SelectedBatch
    /\ pc' = "done"
    /\ UNCHANGED <<side, requeued, entry, persistent, setupIdx, worktrees, max_workers, wstate,
                   outcome, results, succeeded, failed, mergeIdx, merged,
                   verify_ok, verified, done_ids, current, pre, attempts, invoked,
                   released, added>>

\* single task: sys.exit(1) at the retry ceiling, else the prompt preview
\* and break
DrySingle ==
    /\ DryGuard
    /\ Len(SelectedBatch) = 1
    /\ iteration' = iteration + 1
    /\ batch' = SelectedBatch
    /\ pc' = IF count_retries_for_task(progress, SelectedBatch[1].id)
                  >= MAX_RETRIES_PER_TASK
             THEN "exit1" ELSE "done"
    /\ UNCHANGED <<side, requeued, entry, persistent, setupIdx, worktrees, max_workers, wstate,
                   outcome, results, succeeded, failed, mergeIdx, merged,
                   verify_ok, verified, done_ids, current, pre, attempts, invoked,
                   released, added>>

DryRun == DryComplete \/ DryPlanning \/ DryParallel \/ DrySingle

SpecDry == InitDry /\ [][DryRun]_vars

\* ---------------------------------------------------- run_loop, whole
\* the for loop of run_loop over all of range(1, MAX_ITERATIONS + 1), a
\* cycle taken in one step by what it can leave behind. progress.md is not
\* followed here: the retry-ceiling test of a single task is taken both ways
InitIter ==
    /\ entry = "run_loop_for"
    /\ pc = "loop"
    /\ iteration = 0
    /\ max_parallel = MaxPar
    /\ no_parallel \in BOOLEAN
    /\ tasksFile \in {l \in DryLedgers :
                        \A i \in DOMAIN l : l[i].id.epic = "E1" /\ ~l[i].done}
    /\ trunk = <<Commit("base", NoId, DoneSet(tasksFile))>>
    /\ progress = <<>>
    /\ guardrails = <<>>
    /\ onDisk = {}
    /\ requeued = NoneRequeued
    /\ state_lock = NoThread
    /\ writer = [th \in Threads |-> [n |-> 1, at |-> "idle"]]
    /\ files = [f \in SharedFiles |-> <<>>]
    /\ vsteps = <<>>
    /\ vout = NoRun
    /\ InitWt
    /\ dry_run = FALSE
    /\ enable_planning \in BOOLEAN
    /\ planning_rounds = 0
    /\ planned = 0
    /\ InitCycle

\* a for loop that never runs out
loop_never_exhausted(it) == FALSE

\* range(1, MAX_ITERATIONS + 1) has no further value
loop_exhausted(it) == it >= MAX_ITERATIONS

IterGuard ==
    /\ entry = "run_loop_for"
    /\ pc = "loop"
    /\ ~loop_exhausted(iteration)

\* the ledgers a cycle on the batch ids can leave: tasks of the batch
\* marked done (Phase 5 commit, or the single task), or checkboxes taken
\* back by git reset --hard (Phase 5 revert), or no change
CycleLedgers(tasks, ids) ==
    {l \in [DOMAIN tasks -> [id : TaskIds, done : BOOLEAN, epic_parallel : BOOLEAN]] :
        /\ \A i \in DOMAIN tasks :
              l[i].id = tasks[i].id /\ l[i].epic_parallel = tasks[i].epic_parallel
        /\ \/ \A i \in DOMAIN tasks :
                 l[i].done # tasks[i].done => (l[i].done /\ tasks[i].id \in ids)
           \/ \A i \in DOMAIN tasks : l[i].done => tasks[i].done}

\* not batch: break with --no-plan or past MAX_PLANNING_ROUNDS; otherwise a
\* planning round, continue when it added a task and break when not
IterEmpty ==
    /\ IterGuard
    /\ SelectedBatch = <<>>
    /\ iteration' = iteration + 1
    /\ IF ~enable_planning
       THEN /\ pc' = "done"
            /\ UNCHANGED <<planning_rounds, planned, tasksFile>>
       ELSE /\ planning_rounds' = planning_rounds + 1
            /\ IF planning_rounds + 1 > MAX_PLANNING_ROUNDS
               THEN /\ pc' = "done"
                    /\ UNCHANGED <<planned, tasksFile>>
               ELSE /\ planned' = planned + 1
                    /\ \E o \in PlanOutcomes :
                         \/ /\ o = "added"
                            /\ Len(tasksFile) < MaxTasks
                            /\ \E par \in BOOLEAN :
                                  tasksFile' = plan_added(tasksFile, "E1", par)
                            /\ pc' = "loop"
                         \/ /\ o # "added"
                            /\ tasksFile' = tasksFile
                            /\ pc' = "done"
    /\ UNCHANGED <<state_lock, writer, files, vsteps, vout, wtv, dry_run, enable_planning,
                   requeued, entry, max_parallel, no_parallel, trunk, progress,
                   guardrails, onDisk, cycle>>

\* len(batch) > 1: run_parallel_batch returns (continue) or raises
IterParallel ==
    /\ IterGuard
    /\ Len(SelectedBatch) > 1
    /\ iteration' = iteration + 1
    /\ \/ /\ tasksFile' \in CycleLedgers(tasksFile, Range(Ids(SelectedBatch)))
          /\ pc' = "loop"
       \/ /\ tasksFile' = tasksFile
          /\ pc' = "crashed"
    /\ UNCHANGED <<side, requeued, entry, max_parallel, no_parallel, trunk, progress,
                   guardrails, onDisk, cycle>>

\* single task: sys.exit(1) at the retry ceiling; else
\* _run_sequential_task, which marks the task done and returns, or exits 1
\* on a failed agent or verification, or raises
IterSingle ==
    /\ IterGuard
    /\ Len(SelectedBatch) = 1
    /\ iteration' = iteration + 1
    /\ \E at_ceiling \in BOOLEAN, o \in {"passed", "failed", "raise"} :
         IF at_ceiling \/ o = "failed"
         THEN tasksFile' = tasksFile /\ pc' = "exit1"
         ELSE IF o = "raise"
         THEN tasksFile' = tasksFile /\ pc' = "crashed"
         ELSE /\ tasksFile' = mark_task_done(tasksFile, SelectedBatch[1].id)
              /\ pc' = "loop"
    /\ UNCHANGED <<side, requeued, entry, max_parallel, no_parallel, trunk, progress,
                   guardrails, onDisk, cycle>>

\* the else of the for loop: "Max iterations reached", sys.exit(1)
IterExhausted ==
    /\ entry = "run_loop_for"
    /\ pc = "loop"
    /\ loop_exhausted(iteration)
    /\ pc' = "exit1"
    /\ UNCHANGED <<side, requeued, entry, iteration, persistent, cycle>>

Iterate == IterEmpty \/ IterParallel \/ IterSingle \/ IterExhausted

SpecIter == InitIter /\ [][Iterate]_vars /\ WF_vars(Iterate)

\* ------------------------------------------------------ setup_worktree
\* characters of a task id: \w of task_pattern matches any Unicode word
\* character, so a non-ASCII letter is accepted next to an ASCII one
WordChars == {"T", "é"}

Words == UNION {[1..n -> WordChars] : n \in 1..MaxWord}

\* the identifiers task_pattern accepts: (\w+-\w+)
ParsedIds == {w1 \o <<"-">> \o w2 : w1 \in Words, w2 \in Words}

\* the characters [A-Za-z0-9_-] keeps
AsciiSafe == {"T", "-"}

\* re.sub(r"[^A-Za-z0-9_-]", "", task_id)
safe_id(task_id) == SelectSeq(task_id, LAMBDA c : c \in AsciiSafe)

\* WORKTREES_DIR / safe_id
wt_path(task_id) == <<".ralph/worktrees/">> \o safe_id(task_id)

\* f"ralph/task-{safe_id}"
branch_name(task_id) == <<"ralph/task-">> \o safe_id(task_id)

\* trunk positions: what an earlier run branched from, and HEAD now
OldHead == 0
HeadNow == 1

NoDir == [registered |-> FALSE, branch |-> <<>>, owner |-> <<>>,
          base |-> -1, content |-> "absent"]

NoBranch == [at |-> -1, owner |-> <<>>, commits |-> "absent"]

\* what is found under a task's names before setup_worktree: nothing; the
\* registered worktree and branch of an aborted cycle, with the agent's
\* files and commits; the branch alone (teardown cut short after `git
\* worktree remove`); a leftover directory git does not know as a worktree
StaleKinds == {"none", "registered", "branch_only", "dir_only"}

StaleDir(kind, branch) ==
    CASE kind = "registered" ->
           [registered |-> TRUE, branch |-> branch, owner |-> <<"stale">>,
            base |-> OldHead, content |-> "stale"]
      [] kind = "dir_only" ->
           [registered |-> FALSE, branch |-> <<>>, owner |-> <<"stale">>,
            base |-> OldHead, content |-> "stale"]
      [] OTHER -> NoDir

StaleBranch(kind) ==
    IF kind \in {"registered", "branch_only"}
    THEN [at |-> OldHead, owner |-> <<"stale">>, commits |-> "stale"]
    ELSE NoBranch

Found(r, task_id) ==
    LET d == r.dirs[wt_path(task_id)]
        b == r.branches[branch_name(task_id)]
    IN  CASE d # NoDir /\ d.registered -> "registered"
          [] d # NoDir                 -> "dir_only"
          [] b # NoBranch              -> "branch_only"
          [] OTHER                     -> "none"

\* git worktree remove --force <path>: fails on a directory that is not a
\* registered worktree
git_worktree_remove(r, path) ==
    IF r.dirs[path].registered
    THEN [r EXCEPT !.dirs[path] = NoDir]
    ELSE r

\* git branch -D <branch>: refused while a worktree has the branch checked
\* out, and a failure when the branch does not exist
git_branch_D(r, branch) ==
    IF \E q \in DOMAIN r.dirs : r.dirs[q].registered /\ r.dirs[q].branch = branch
    THEN r
    ELSE [r EXCEPT !.branches[branch] = NoBranch]

\* git worktree add -b <branch> <path> HEAD: fails when the path or the
\* branch exists, or for a reason outside the repository (env_ok = FALSE)
git_worktree_add(r, branch, path, task_id, env_ok) ==
    IF env_ok /\ r.dirs[path] = NoDir /\ r.branches[branch] = NoBranch
    THEN [ok |-> TRUE,
          repo |-> [dirs |-> [r.dirs EXCEPT ![path] =
                                [registered |-> TRUE, branch |-> branch,
                                 owner |-> task_id, base |-> HeadNow,
                                 content |-> "fresh"]],
                    branches |-> [r.branches EXCEPT ![branch] =
                                [at |-> HeadNow, owner |-> task_id,
                                 commits |-> "none"]]]]
    ELSE [ok |-> FALSE, repo |-> r]

\* the worktree added without removing what is there
setup_worktree_keep_stale(r, task_id, env_ok) ==
    git_worktree_add(r, branch_name(task_id), wt_path(task_id), task_id, env_ok)

\* setup_worktree on the repository: ok = FALSE is the RuntimeError
setup_worktree_repo(r, task_id, env_ok) ==
    LET path == wt_path(task_id)
        branch == branch_name(task_id)
        r1 == IF r.dirs[path] # NoDir THEN git_worktree_remove(r, path) ELSE r
        r2 == git_branch_D(r1, branch)
    IN  git_worktree_add(r2, branch, path, task_id, env_ok)

\* Phase 1 on a batch of two distinct task ids, whatever is found under
\* their names
InitWorktree ==
    /\ entry = "setup_worktree"
    /\ pc = "setup"
    /\ iteration = 0
    /\ max_parallel = MaxPar
    /\ no_parallel = FALSE
    /\ tasksFile \in {l \in StartLedgers : \A i \in DOMAIN l : l[i].epic_parallel}
    /\ trunk = <<Commit("base", NoId, DoneSet(tasksFile))>>
    /\ progress = <<>>
    /\ guardrails = <<>>
    /\ onDisk = {}
    /\ requeued = NoneRequeued
    /\ state_lock = NoThread
    /\ writer = [th \in Threads |-> [n |-> 1, at |-> "idle"]]
    /\ files = [f \in SharedFiles |-> <<>>]
    /\ vsteps = <<>>
    /\ vout = NoRun
    /\ InitPlan
    /\ wids \in {w \in [1..2 -> ParsedIds] : w[1] # w[2]}
    /\ \E kind \in [{wt_path(wids[i]) : i \in 1..2} -> StaleKinds] :
          repo = [dirs |-> [q \in {wt_path(wids[i]) : i \in 1..2} |->
                              StaleDir(kind[q], <<"ralph/task-">> \o Tail(q))],
                  branches |-> [b \in {branch_name(wids[i]) : i \in 1..2} |->
                              StaleBranch(kind[<<".ralph/worktrees/">> \o Tail(b)])]]
    /\ setups = <<>>
    /\ InitCycle

\* one pass of the Phase 1 loop: setup_worktree(task["id"])
SetupWorktree ==
    /\ entry = "setup_worktree"
    /\ Len(setups) < Len(wids)
    /\ \E env_ok \in BOOLEAN :
         LET task_id == wids[Len(setups) + 1]
             res == setup_worktree_repo(repo, task_id, env_ok)
         IN  /\ repo' = res.repo
             /\ setups' = Append(setups, [id |-> task_id, ok |-> res.ok,
                                          env_ok |-> env_ok,
                                          found |-> Found(repo, task_id)])
    /\ UNCHANGED <<wids, state_lock, writer, files, vsteps, vout, plan, main>>

SpecWorktree == InitWorktree /\ [][SetupWorktree]_vars

\* ---------------------------------------------------------- progress.md
\* log_progress called for tasks of one epic whose descriptions name another
\* task of the epic in bold, or none
InitProgress ==
    /\ entry = "log_progress"
    /\ pc = "loop"
    /\ iteration = 0
    /\ max_parallel = MaxPar
    /\ no_parallel = FALSE
    /\ tasksFile \in {l \in StartLedgers : \A i \in DOMAIN l : l[i].epic_parallel}
    /\ trunk = <<Commit("base", NoId, DoneSet(tasksFile))>>
    /\ progress = <<>>
    /\ guardrails = <<>>
    /\ onDisk = {}
    /\ requeued = NoneRequeued
    /\ InitSide
    /\ InitCycle

LogProgress ==
    /\ entry = "log_progress"
    /\ Len(progress) < MaxLog
    /\ \E i \in DOMAIN tasksFile, passed \in BOOLEAN :
         \E desc \in {NoId} \cup {tasksFile[j].id : j \in DOMAIN tasksFile \ {i}} :
            progress' = log_progress(progress, tasksFile[i].id, desc, passed)
    /\ UNCHANGED <<side, requeued, entry, pc, iteration, cycle,
                   max_parallel, no_parallel, tasksFile, trunk, guardrails, onDisk>>

SpecProgress == InitProgress /\ [][LogProgress]_vars

\* ------------------------------------------------------------ state files
\* the appends a thread makes during one parallel cycle, in call order: a
\* pool thread runs run_worker (PARALLEL_START, run_claude's exit line,
\* PARALLEL_END); the orchestrator thread records a failed worker
\* everything run_worker writes under .ralph, in call order: PARALLEL_START,
\* then run_claude (PROMPT_FILE.write_text, the exit line), PARALLEL_END
run_worker_writes == <<"log_activity", "write_prompt", "log_activity", "log_activity">>

appends(th) ==
    IF entry = "run_worker"
    THEN IF th = 0 THEN <<>> ELSE run_worker_writes
    ELSE IF th = 0 THEN <<"add_guardrail", "log_progress">>
    ELSE <<"log_activity", "log_activity", "log_activity">>

file_of(fn) ==
    CASE fn = "log_activity"  -> "activity"
      [] fn = "log_progress"  -> "progress"
      [] fn = "add_guardrail" -> "guardrails"
      [] fn = "write_prompt"  -> "prompt"

\* a lock that anyone can take at any time
lock_ignored(l) == TRUE

\* _STATE_LOCK can be acquired
lock_free(l) == l = NoThread

Chunk(th, part) == [by |-> th, n |-> writer[th].n, part |-> part]

\* `with _STATE_LOCK:` entered by the thread's next append
LockAcquire(th) ==
    /\ writer[th].at = "idle"
    /\ writer[th].n <= Len(appends(th))
    /\ appends(th)[writer[th].n] # "write_prompt"
    /\ lock_free(state_lock)
    /\ state_lock' = th
    /\ writer' = [writer EXCEPT ![th].at = "locked"]
    /\ UNCHANGED <<files, vsteps, vout, plan, wtv, main>>

\* f.write(entry) reaches the file in two pieces
WriteHead(th) ==
    /\ writer[th].at = "locked"
    /\ LET f == file_of(appends(th)[writer[th].n]) IN
          files' = [files EXCEPT ![f] = Append(@, Chunk(th, "head"))]
    /\ writer' = [writer EXCEPT ![th].at = "head"]
    /\ UNCHANGED <<state_lock, vsteps, vout, plan, wtv, main>>

WriteTail(th) ==
    /\ writer[th].at = "head"
    /\ LET f == file_of(appends(th)[writer[th].n]) IN
          files' = [files EXCEPT ![f] = Append(@, Chunk(th, "tail"))]
    /\ writer' = [writer EXCEPT ![th].at = "tail"]
    /\ UNCHANGED <<state_lock, vsteps, vout, plan, wtv, main>>

\* the file is closed and the with block left
LockRelease(th) ==
    /\ writer[th].at = "tail"
    /\ state_lock' = NoThread
    /\ writer' = [writer EXCEPT ![th] = [n |-> @.n + 1, at |-> "idle"]]
    /\ UNCHANGED <<files, vsteps, vout, plan, wtv, main>>

StateAppend ==
    \E th \in Threads :
        \/ LockAcquire(th)
        \/ WriteHead(th)
        \/ WriteTail(th)
        \/ LockRelease(th)

\* the threads of one parallel cycle appending to the state files
InitLock ==
    /\ entry = "state_files"
    /\ pc = "workers"
    /\ iteration = 0
    /\ max_parallel = MaxPar
    /\ no_parallel = FALSE
    /\ tasksFile \in {l \in StartLedgers : \A i \in DOMAIN l : l[i].epic_parallel}
    /\ trunk = <<Commit("base", NoId, DoneSet(tasksFile))>>
    /\ progress = <<>>
    /\ guardrails = <<>>
    /\ onDisk = {}
    /\ requeued = NoneRequeued
    /\ InitSide
    /\ InitCycle

SpecLock == InitLock /\ [][StateAppend]_vars

\* PROMPT_FILE.write_text(prompt) in run_claude: the file is opened for
\* writing, which empties it, with no lock taken
PromptOpen(th) ==
    /\ writer[th].at = "idle"
    /\ writer[th].n <= Len(appends(th))
    /\ appends(th)[writer[th].n] = "write_prompt"
    /\ files' = [files EXCEPT !["prompt"] = <<Chunk(th, "head")>>]
    /\ writer' = [writer EXCEPT ![th].at = "unlocked"]
    /\ UNCHANGED <<state_lock, vsteps, vout, plan, wtv, main>>

\* the rest of the prompt is written and the file closed
PromptClose(th) ==
    /\ writer[th].at = "unlocked"
    /\ files' = [files EXCEPT !["prompt"] = Append(@, Chunk(th, "tail"))]
    /\ writer' = [writer EXCEPT ![th] = [n |-> @.n + 1, at |-> "idle"]]
    /\ UNCHANGED <<state_lock, vsteps, vout, plan, wtv, main>>

\* the pool threads of one parallel batch, each inside run_worker
RunWorkers ==
    \E th \in 1..MaxPar :
        \/ LockAcquire(th)
        \/ WriteHead(th)
        \/ WriteTail(th)
        \/ LockRelease(th)
        \/ PromptOpen(th)
        \/ PromptClose(th)

InitWorkers ==
    /\ entry = "run_worker"
    /\ pc = "workers"
    /\ iteration = 0
    /\ max_parallel = MaxPar
    /\ no_parallel = FALSE
    /\ tasksFile \in {l \in StartLedgers : \A i \in DOMAIN l : l[i].epic_parallel}
    /\ trunk = <<Commit("base", NoId, DoneSet(tasksFile))>>
    /\ progress = <<>>
    /\ guardrails = <<>>
    /\ onDisk = {}
    /\ requeued = NoneRequeued
    /\ InitSide
    /\ InitCycle

SpecWorkers == InitWorkers /\ [][RunWorkers]_vars

\* ----------------------------------------------------------------- claims
BatchIds == Range(Ids(batch))

\* position of a task in the batch (ledger order)
Pos(t) == CHOOSE i \in DOMAIN batch : batch[i].id = t

\* the merge commits git adds for a list of merged tasks on top of tr
RECURSIVE MergeCommits(_, _)
MergeCommits(tr, ids) ==
    IF ids = <<>> THEN tr
    ELSE MergeCommits(
           IF outcome[Head(ids)] = "ok_commit"
           THEN Append(tr, Commit("merge", Head(ids), tr[Len(tr)].ledger))
           ELSE tr,
           Tail(ids))

NewlyDone == DoneSet(tasksFile) \ DoneSet(pre.tasks)

\* C1: when run_parallel_batch returns, either every merged task is done and
\* trunk is its pre-cycle state plus exactly the merged tasks' changes, or
\* trunk is its pre-cycle state and no task of the batch was marked done
C1_Atomicity ==
    pc = "returned" =>
        \/ /\ Range(merged) \subseteq DoneSet(tasksFile)
           /\ trunk = MergeCommits(pre.trunk, merged)
        \/ /\ trunk = pre.trunk
           /\ NewlyDone \cap BatchIds = {}

\* C2: when verification fails, the reset removes exactly the commits the
\* batch's merges added, so trunk is back at its state before the first merge
C2_RevertExact ==
    (pc = "cleanup" /\ ~verify_ok) =>
        /\ revert_count(merged) = added
        /\ trunk = pre.trunk

\* C3: merges are attempted in ledger order (the order of the batch),
\* whatever order the workers finish in
C3_LedgerOrder ==
    \A i, j \in DOMAIN attempts : i < j => Pos(attempts[i]) < Pos(attempts[j])

\* C4: run_loop never invokes the agent, in a singleton or a parallel batch,
\* for a task that has MAX_RETRIES_PER_TASK or more recorded failures
C4_RetryCeiling ==
    entry = "run_loop" =>
        \A t \in TaskIds :
            invoked[t] > 0 =>
                count_retries_for_task(pre.progress, t) < MAX_RETRIES_PER_TASK

\* C5: a completion flag, once done, is never set back to pending by a step
\* of the orchestrator, a revert of a later batch included
C5_Monotonic ==
    [][\A i \in DOMAIN tasksFile : tasksFile[i].done => tasksFile'[i].done]_vars

Conflicted == Range(attempts) \ Range(merged)

Reverted == verified = 1 /\ ~verify_ok

\* C6: after a parallel cycle, each task whose worker failed, whose merge
\* conflicted, or that was merged in a reverted batch has exactly one more
\* failure entry in the progress log than before the cycle
C6_FailuresRecorded ==
    pc = "returned" =>
        \A t \in BatchIds :
            (\/ outcome[t] \in {"fail", "timeout"}
             \/ t \in Conflicted
             \/ (Reverted /\ t \in Range(merged)))
            => count_retries_for_task(progress, t)
                 = count_retries_for_task(pre.progress, t) + 1

\* C7: on every way out of a parallel cycle, each acquired worktree has been
\* torn down exactly once and none remains on disk
C7_Released ==
    /\ \A t \in TaskIds : released[t] <= 1
    /\ pc \in {"returned", "crashed"} =>
          \A t \in Range(worktrees) : released[t] = 1 /\ t \notin onDisk

\* C8: never more than max_parallel worker invocations run at the same time
C8_Bound == Cardinality(Running) <= max_parallel

C8_Witness ==
    /\ pc = "workers"
    /\ Len(worktrees) > max_parallel
    /\ Cardinality(Running) = max_parallel
    /\ \E t \in Range(worktrees) : wstate[t] = "queued"

PastWorkers ==
    \/ pc \in {"merge", "phase5", "cleanup"}
    \/ pc = "returned" /\ worktrees # <<>>
    \/ pc = "crashed" /\ max_workers > 0

\* C9: every task of the execution set gets exactly one invocation and one
\* outcome, the recorded outcome of a task is its own worker's, a failure
\* leaves the other workers running to their end, and no merge is attempted
\* before every invocation has completed
C9_Barrier ==
    /\ \A t \in TaskIds :
          /\ invoked[t] <= 1
          /\ invoked[t] = 1 <=> wstate[t] \in {"running", "finished"}
          /\ outcome[t] # "none" <=> wstate[t] = "finished"
    /\ \A i, j \in DOMAIN results : results[i].id = results[j].id => i = j
    /\ \A i \in DOMAIN results :
          /\ wstate[results[i].id] = "finished"
          /\ results[i].ok = Ok(outcome[results[i].id])
    /\ PastWorkers =>
          \A t \in Range(worktrees) : invoked[t] = 1 /\ wstate[t] = "finished"
    /\ (pc \in {"merge", "phase5", "cleanup"} \/ attempts # <<>>) =>
          /\ Range(Ids(results)) = Range(worktrees)
          /\ \A t \in Range(worktrees) : wstate[t] = "finished"

C9_Witness ==
    /\ pc = "merge"
    /\ attempts # <<>>
    /\ failed # <<>>
    /\ Len(results) = MaxTasks

Succeeded == {t \in TaskIds : Ok(outcome[t])}

\* C10: a task whose worker failed is never merged and never marked done in
\* that cycle: merged holds only tasks with a successful outcome
C10_MergedSucceeded ==
    /\ Range(attempts) \subseteq Succeeded
    /\ Range(merged) \subseteq Succeeded
    /\ Range(done_ids) \subseteq Succeeded
    /\ NewlyDone \subseteq Succeeded

C10_Witness ==
    /\ pc = "returned"
    /\ failed # <<>>
    /\ done_ids # <<>>
    /\ NewlyDone = Range(merged)

T(n) == [epic |-> "E1", seq |-> n]

Committed == verified = 1 /\ verify_ok

\* C11: a conflicting merge is aborted and leaves trunk as it was before the
\* attempt, the task is not merged and stays pending, every other successful
\* task still gets its merge attempt, and when verification passes exactly
\* the merged (non-conflicting) tasks are marked done
C11_ConflictPerTask ==
    /\ pc \in {"merge", "phase5"} => trunk = MergeCommits(pre.trunk, merged)
    /\ Conflicted \cap DoneSet(tasksFile) = {}
    /\ pc \in {"phase5", "cleanup"} =>
          /\ attempts = succeeded
          /\ Range(merged) = Range(succeeded) \ Conflicted
    /\ (pc \in {"cleanup", "returned"} /\ Committed) =>
          /\ trunk = MergeCommits(pre.trunk, merged)
          /\ NewlyDone = Range(merged)
          /\ NewlyDone = Succeeded \ Conflicted

C11_Witness ==
    /\ pc = "returned"
    /\ Committed
    /\ Conflicted = {T(2)}
    /\ NewlyDone = {T(1), T(3)}

\* C12: run_verify runs at most once in a parallel cycle, only with at least
\* one merged task and only after the last merge attempt; no task is marked
\* done and nothing is reverted before it, the commit / revert phase is only
\* reached after it, and a cycle returns having verified exactly when it
\* merged something
C12_VerifyOnce ==
    /\ verified <= 1
    /\ verified = 1 => (merged # <<>> /\ attempts = succeeded)
    /\ pc \in {"phase5", "cleanup"} => verified = 1
    /\ pc = "returned" => (verified = 1 <=> merged # <<>>)
    /\ (NewlyDone # {} \/ done_ids # <<>>) => Committed
    /\ trunk # MergeCommits(pre.trunk, merged) => Reverted

C12_Witness ==
    /\ pc = "phase5"
    /\ verified = 1
    /\ Len(attempts) = MaxTasks
    /\ Conflicted # {}

\* C13: a parallel cycle that merged nothing (every worker failed, or every
\* merge conflicted) returns without having run run_verify, with trunk and
\* every completion flag as at the start of the cycle
C13_ZeroMerge ==
    (pc = "returned" /\ merged = <<>>) =>
        /\ verified = 0
        /\ trunk = pre.trunk
        /\ tasksFile = pre.tasks

C13_Witness ==
    /\ pc = "returned"
    /\ merged = <<>>
    /\ Len(attempts) >= 2
    /\ failed # <<>>

SuccessEntries(log, t) ==
    Cardinality({i \in DOMAIN log : log[i].passed /\ log[i].task = t})

\* C14: when verification passes, the tasks marked done in the cycle are
\* exactly the merged ones, each merged once, each with exactly one new
\* success entry in the progress log (and no other task with any), and
\* run_parallel_batch returns the merged ids; if every worker of the batch
\* succeeded and no merge conflicted, every task of the batch is done
C14_CommitExact ==
    (pc = "returned" /\ Committed) =>
        /\ NewlyDone = Range(merged)
        /\ \A i, j \in DOMAIN merged : merged[i] = merged[j] => i = j
        /\ \A t \in TaskIds :
              SuccessEntries(progress, t) =
                SuccessEntries(pre.progress, t) + (IF t \in Range(merged) THEN 1 ELSE 0)
        /\ done_ids = merged
        /\ ((\A t \in BatchIds : Ok(outcome[t])) /\ Conflicted = {}) =>
              BatchIds \subseteq DoneSet(tasksFile)

C14_Witness ==
    /\ pc = "returned"
    /\ Committed
    /\ Len(batch) = MaxTasks
    /\ Range(merged) = BatchIds
    /\ BatchIds \subseteq DoneSet(tasksFile)

\* indices of the pending tasks, and the first of them
PendingIdx == {i \in DOMAIN tasksFile : ~tasksFile[i].done}

FirstIdx == CHOOSE i \in PendingIdx : \A j \in PendingIdx : i <= j

\* the batch of the iteration: what get_next_batch returns on the ledger
\* before the dispatch, what run_loop holds after it
ReturnedBatch == IF pc = "loop" THEN SelectedBatch ELSE batch

\* C15: a batch of two or more tasks has one epic prefix only, holds only
\* tasks under a [parallel] heading, and has at most max_parallel tasks
C15_BatchShape ==
    Len(ReturnedBatch) >= 2 =>
        /\ \A i, j \in DOMAIN ReturnedBatch :
              ReturnedBatch[i].id.epic = ReturnedBatch[j].id.epic
        /\ \A i \in DOMAIN ReturnedBatch : ReturnedBatch[i].epic_parallel
        /\ Len(ReturnedBatch) <= max_parallel

C15_Witness ==
    /\ pc = "setup"
    /\ batch = <<tasksFile[1], tasksFile[3]>>
    /\ ~tasksFile[2].done
    /\ tasksFile[2].epic_parallel
    /\ tasksFile[2].id.epic # tasksFile[1].id.epic

\* C16: get_next_batch returns the empty batch only on a ledger without a
\* pending task: when run_loop has taken the empty-batch exit (planning /
\* "All tasks complete"), no task of the ledger is pending
C16_NonEmpty ==
    pc = "done" => (batch = <<>> /\ PendingIdx = {})

\* C17: with --no-parallel, or with the first pending task not under a
\* [parallel] heading, get_next_batch returns exactly that task and run_loop
\* takes the sequential path with it (the retry-ceiling exit or
\* _run_sequential_task)
C17_Sequential ==
    [][(/\ pc = "loop"
        /\ PendingIdx # {}
        /\ (no_parallel \/ ~tasksFile[FirstIdx].epic_parallel))
       => (/\ SelectedBatch = <<tasksFile[FirstIdx]>>
           /\ pc' \in {"seq_claude", "exit1"}
           /\ pc' = "seq_claude" =>
                 (batch' = <<tasksFile[FirstIdx]>> /\ current' = tasksFile[FirstIdx].id))]_vars

C17_Witness ==
    /\ pc = "seq_claude"
    /\ tasksFile[1].done
    /\ batch = <<tasksFile[2]>>
    /\ ~tasksFile[2].epic_parallel
    /\ ~no_parallel
    /\ max_parallel = MaxPar
    /\ ~tasksFile[3].done

\* the pending tasks with the first pending task's epic prefix under a
\* [parallel] heading, by index
GroupIdx ==
    {i \in PendingIdx :
        /\ tasksFile[i].epic_parallel
        /\ tasksFile[i].id.epic = tasksFile[FirstIdx].id.epic}

NthOf(S, n) == CHOOSE i \in S : Cardinality({j \in S : j < i}) = n - 1

\* C18: with parallel mode on and the first pending task under a [parallel]
\* heading, the batch is the first min(max_parallel, k) of the k pending
\* tasks of that task's group, in ledger order; it starts with the first
\* pending task
C18_Parallel ==
    (PendingIdx # {} /\ ~no_parallel /\ tasksFile[FirstIdx].epic_parallel
        /\ pc \in {"loop", "setup", "seq_claude"}) =>
        /\ ReturnedBatch =
              [n \in 1..Min(max_parallel, Cardinality(GroupIdx)) |->
                  tasksFile[NthOf(GroupIdx, n)]]
        /\ ReturnedBatch # <<>> => ReturnedBatch[1] = tasksFile[FirstIdx]

C18_Witness ==
    /\ pc = "setup"
    /\ max_parallel = 2
    /\ Ids(batch) = <<T(1), T(2)>>
    /\ GroupIdx = {1, 2, 3}

\* C20: the tasks of a batch reverted on a failed verification stay pending,
\* and run_loop does not start a parallel batch holding one of them before
\* it has run that task as a single-task batch
C20_SequentialRetry ==
    /\ (pc \in {"cleanup", "returned"} /\ Reverted) =>
          Range(merged) \cap DoneSet(tasksFile) = {}
    /\ (entry = "run_loop" /\ pc = "setup") =>
          BatchIds \cap requeued.reverted = {}

\* C21: run_loop does not start a parallel batch holding a task whose merge
\* conflicted in an earlier cycle before it has run that task as a
\* single-task batch
C21_ConflictSequential ==
    (entry = "run_loop" /\ pc = "setup") =>
        BatchIds \cap requeued.conflicted = {}

\* tasks of the batch whose setup_worktree call raised: the Phase 1 loop
\* has passed them, no worktree is on disk and none was torn down
SetupFailed ==
    {t \in BatchIds : Pos(t) < setupIdx /\ t \notin onDisk /\ released[t] = 0}

\* C22: a task whose worktree could not be created is left out of the
\* execution set (never invoked, never merged) while every other task of
\* the batch is invoked; when no worktree could be created the cycle
\* returns with no invocation, no merge, no verification, and trunk, ledger
\* and progress log as at its start
C22_SetupFailure ==
    /\ \A t \in SetupFailed :
          /\ t \notin Range(worktrees)
          /\ invoked[t] = 0
          /\ t \notin Range(attempts)
          /\ t \notin NewlyDone
    /\ PastWorkers => \A t \in BatchIds \ SetupFailed : invoked[t] = 1
    /\ (setupIdx > Len(batch) /\ SetupFailed = BatchIds) =>
          /\ pc \in {"setup", "returned"}
          /\ \A t \in TaskIds : invoked[t] = 0
          /\ attempts = <<>>
          /\ verified = 0
          /\ trunk = pre.trunk
          /\ tasksFile = pre.tasks
          /\ progress = pre.progress

C22_Witness ==
    /\ pc = "merge"
    /\ Len(batch) = MaxTasks
    /\ SetupFailed = {T(1)}
    /\ \A t \in BatchIds \ {T(1)} : invoked[t] = 1

\* C23: a worker killed at its timeout counts as a failure of its task: the
\* task is invoked once in the cycle, its result is not ok, it is listed as
\* failed, and it is neither merged nor marked done
C23_Timeout ==
    \A t \in TaskIds :
        outcome[t] = "timeout" =>
            /\ invoked[t] = 1
            /\ \A i \in DOMAIN results : results[i].id = t => ~results[i].ok
            /\ t \notin Range(succeeded)
            /\ pc \in {"merge", "phase5", "cleanup", "returned"} => t \in Range(failed)
            /\ t \notin Range(attempts)
            /\ t \notin Range(merged)
            /\ t \notin NewlyDone

C23_Witness ==
    /\ pc = "returned"
    /\ outcome[T(1)] = "timeout"
    /\ invoked[T(1)] = 1
    /\ T(2) \in NewlyDone

\* failure entries appended to the log for task t
FailureEntries(log, t) ==
    Cardinality({i \in DOMAIN log : ~log[i].passed /\ log[i].task = t})

\* C24: when the single task of the selected batch has MAX_RETRIES_PER_TASK
\* or more failure entries, the step run_loop takes is the exit with status
\* 1: the agent is not invoked, and trunk, ledger and progress log stay as
\* they are
C24_FatalStop ==
    [][(/\ pc = "loop"
        /\ Len(SelectedBatch) = 1
        /\ FailureEntries(progress, SelectedBatch[1].id) >= MAX_RETRIES_PER_TASK)
       => (/\ pc' = "exit1"
           /\ invoked' = invoked
           /\ trunk' = trunk
           /\ tasksFile' = tasksFile
           /\ progress' = progress)]_vars

C24_Witness ==
    /\ pc = "exit1"
    /\ current = NoId
    /\ PendingIdx # {}
    /\ FailureEntries(progress, tasksFile[FirstIdx].id) = MAX_RETRIES_PER_TASK
    /\ \A t \in TaskIds : invoked[t] = 0

\* run_loop has left through the retry-ceiling check: no task was started in
\* this iteration and the first pending task is at the ceiling
CeilingStop ==
    /\ current = NoId
    /\ PendingIdx # {}
    /\ FailureEntries(progress, tasksFile[FirstIdx].id) >= MAX_RETRIES_PER_TASK

\* C25: run_loop exits with a non-zero status only at the retry ceiling
C25_OnlyCeiling == pc = "exit1" => CeilingStop

\* C26: a task whose agent failed or timed out, on either path, is not
\* marked done, and run_loop exits with a non-zero status only at the retry
\* ceiling or after a failed verification
C26_Absorbed ==
    /\ \A t \in TaskIds : outcome[t] \in {"fail", "timeout"} => t \notin NewlyDone
    /\ pc = "exit1" => (CeilingStop \/ (verified = 1 /\ ~verify_ok))

InAppend == {th \in Threads : writer[th].at \in {"locked", "head", "tail"}}

\* the chunks of a file pair up into whole entries, the last one possibly
\* still being written by the thread that began it
Whole(c) ==
    \A i \in DOMAIN c :
        /\ c[i].part = "head" =>
              IF i < Len(c)
              THEN c[i + 1] = [c[i] EXCEPT !.part = "tail"]
              ELSE writer[c[i].by] = [n |-> c[i].n, at |-> "head"]
        /\ c[i].part = "tail" =>
              (i > 1 /\ c[i - 1] = [c[i] EXCEPT !.part = "head"])

\* how often the n-th append of a thread is in its file
Copies(th, n) ==
    LET c == files[file_of(appends(th)[n])]
    IN  Cardinality({i \in DOMAIN c : c[i].by = th /\ c[i].n = n /\ c[i].part = "head"})

\* C27: an append to the activity log, the progress log or the guardrail
\* file is made only by the thread holding _STATE_LOCK, at most one thread
\* is inside an append at a time, every file is a sequence of whole
\* entries, and every append made is in its file exactly once
C27_Mutex ==
    /\ Cardinality(InAppend) <= 1
    /\ \A th \in InAppend : state_lock = th
    /\ \A f \in StateFiles : Whole(files[f])
    /\ \A th \in Threads : \A n \in DOMAIN appends(th) :
          Copies(th, n) =
            IF n < writer[th].n \/ (n = writer[th].n /\ writer[th].at \in {"head", "tail"})
            THEN 1 ELSE 0

C27_Witness ==
    /\ Len(files["activity"]) >= 4
    /\ files["activity"][1].by # files["activity"][3].by
    /\ writer[2].at = "idle"
    /\ writer[2].n <= Len(appends(2))
    /\ writer[1].at = "head"

\* the first step with a non-zero exit status, Len + 1 if there is none
FirstFailing(codes) ==
    IF \A i \in DOMAIN codes : codes[i] = 0 THEN Len(codes) + 1
    ELSE CHOOSE i \in DOMAIN codes :
           codes[i] # 0 /\ \A j \in 1..(i - 1) : codes[j] = 0

\* C28: run_verify passes exactly when every configured step exits zero;
\* it runs the steps in list order up to and including the first one that
\* exits non-zero and none after it; with no step configured it passes
\* without running anything
C28_Oracle ==
    vout # NoRun =>
        /\ vout.passed <=> \A i \in DOMAIN vsteps : vsteps[i] = 0
        /\ vout.ran = [i \in 1..Min(FirstFailing(vsteps), Len(vsteps)) |-> i]
        /\ vsteps = <<>> => (vout.passed /\ vout.ran = <<>>)
        /\ vout.passed = run_verify([i \in DOMAIN vsteps |-> vsteps[i] = 0])

C28_Witness ==
    /\ vsteps = <<0, 2, 0>>
    /\ vout = [passed |-> FALSE, ran |-> <<1, 2>>]

\* C29: the retry count of a task is the number of failure entries appended
\* for that task: entries of other task ids and success entries leave it
\* unchanged
C29_RetryCount ==
    \A i \in DOMAIN tasksFile :
        count_retries_for_task(progress, tasksFile[i].id)
            = FailureEntries(progress, tasksFile[i].id)

\* C30: a task's checkbox goes from pending to done only in a step after
\* which verification has run and passed: on the sequential path for the
\* current task, whose agent exited successfully, with run_verify passing
\* in that step; on the parallel path for a task whose branch was merged,
\* the batch verification having passed
C30_DoneAfterVerify ==
    [][\A i \in DOMAIN tasksFile :
         (~tasksFile[i].done /\ tasksFile'[i].done) =>
            /\ verify_ok' /\ verified' >= 1
            /\ \/ /\ pc = "seq_verify"
                  /\ tasksFile[i].id = current
                  /\ outcome[current] \in {"ok_commit", "ok_empty"}
               \/ /\ pc = "phase5"
                  /\ verify_ok /\ verified >= 1
                  /\ tasksFile[i].id \in Range(merged)]_vars

C30_Witness ==
    /\ pc = "seq_done"
    /\ verify_ok /\ verified = 1
    /\ outcome[current] = "ok_commit"
    /\ current \in DoneSet(tasksFile)

\* C31: with dry_run set, run_loop never invokes the agent, creates no
\* worktree, adds no commit to trunk and marks no task done
C31_DryRunPreviews ==
    dry_run =>
        /\ planned = 0
        /\ \A t \in TaskIds : invoked[t] = 0
        /\ onDisk = {}
        /\ Len(trunk) = 1
        /\ DoneSet(tasksFile) = trunk[1].ledger

\* C32: two distinct task ids accepted by parse_tasks get distinct worktree
\* paths and distinct branch names, and setting up the second task of a
\* batch leaves the worktree set up for the first in place
C32_DistinctNames ==
    \A i \in DOMAIN setups : \A j \in DOMAIN setups :
        i # j =>
            /\ wt_path(setups[i].id) # wt_path(setups[j].id)
            /\ branch_name(setups[i].id) # branch_name(setups[j].id)
            /\ setups[i].ok => repo.dirs[wt_path(setups[i].id)].owner = setups[i].id

\* the setup_worktree call that returned last
LastSetup == setups[Len(setups)]

C34_Containment ==
    /\ Range(done_ids) \subseteq Range(merged)
    /\ Range(merged) \subseteq Range(succeeded)
    /\ Range(succeeded) \subseteq Succeeded \cap Range(worktrees)
    /\ Range(worktrees) \subseteq BatchIds
    /\ pc = "returned" =>
          done_ids = IF verified = 1 /\ verify_ok THEN merged ELSE <<>>

C34_Witness ==
    /\ pc = "returned"
    /\ done_ids = merged /\ Len(merged) = 1
    /\ Len(succeeded) = 2
    /\ Len(worktrees) = 2
    /\ Len(batch) = 3

\* C35: run_loop makes at most MAX_ITERATIONS iterations and ends whatever
\* the cycles produce, and with the iterations used up and the loop not
\* left it exits abnormally
C35_Terminates ==
    /\ [](iteration <= MAX_ITERATIONS)
    /\ <>(pc \in {"done", "exit1", "crashed"})
    /\ [][(pc = "loop" /\ iteration = MAX_ITERATIONS) => pc' = "exit1"]_vars

C35_Witness ==
    /\ pc = "exit1"
    /\ iteration = MAX_ITERATIONS
    /\ Len(SelectedBatch) > 1

\* the threads in the middle of writing file f
WritingTo(f) ==
    {th \in Threads :
        /\ writer[th].at \in {"head", "tail", "unlocked"}
        /\ file_of(appends(th)[writer[th].n]) = f}

\* C36: a worker writes a file under .ralph, the saved prompt included,
\* only while it holds _STATE_LOCK, and no two workers are in the middle of
\* writing the same file
C36_GuardedWrites ==
    \A f \in SharedFiles :
        /\ \A th \in WritingTo(f) : state_lock = th
        /\ Cardinality(WritingTo(f)) <= 1

\* C37: a sequential task whose agent exits non-zero or is killed at the
\* timeout, or whose verification fails after the agent succeeded, ends
\* run_loop with a non-zero exit in that step; by then the cycle has
\* appended exactly one entry to the progress log, a failure entry for the
\* task, and exactly one guardrail entry, for the task, and has left the
\* ledger as it was; nothing runs after the exit
C37_SequentialFailure ==
    [][/\ (pc = "seq_claude" /\ outcome'[current] \in {"fail", "timeout"})
             => pc' = "exit1"
       /\ (pc = "seq_verify" /\ ~verify_ok') => pc' = "exit1"
       /\ (pc = "seq_claude" /\ pc' = "seq_verify")
             => (progress' = progress /\ guardrails' = guardrails)
       /\ (pc \in {"seq_claude", "seq_verify"} /\ pc' = "exit1")
             => /\ progress' = Append(pre.progress,
                        [task |-> current, desc |-> NoId, passed |-> FALSE])
                /\ FailureEntries(progress', current)
                        = FailureEntries(pre.progress, current) + 1
                /\ guardrails' = Append(guardrails, current)
                /\ tasksFile' = pre.tasks
                /\ current \notin DoneSet(tasksFile')
       /\ pc # "exit1"]_vars

C37_Witness ==
    /\ pc = "exit1"
    /\ current # NoId
    /\ outcome[current] = "ok_commit"
    /\ verified = 1 /\ ~verify_ok
    /\ Len(guardrails) = 1

TypeOK ==
    /\ pc \in {"loop", "done", "exit1", "crashed", "seq_claude", "seq_verify",
               "seq_done", "setup", "workers", "unwinding", "merge", "phase5",
               "cleanup", "returned"}
    /\ Range(worktrees) \subseteq TaskIds

====
